---------------------------- MODULE Spec2Model ----------------------------
(***************************************************************************)
(* A model of the gravitational k-d tree: Entity (src/src/entity.rs),      *)
(* Node (src/src/node.rs) and GravTree (src/src/gravtree.rs).              *)
(*                                                                         *)
(* Numbers.  An f64 is modelled as an exact extended rational: a record    *)
(* [n, d] in lowest terms with d > 0 for a finite value, d = 0 and n = 0   *)
(* for NaN, d = 0 and n = 1 / -1 for +infinity / -infinity.  Rounding is   *)
(* not modelled; NaN and infinity propagate as IEEE-754 prescribes.        *)
(*                                                                         *)
(* Options.  Option<T> is a sequence: <<>> is None and <<v>> is Some(v).   *)
(***************************************************************************)
EXTENDS Integers, Sequences, FiniteSets

(***************************************************************************)
(* Bounds of the model.                                                    *)
(***************************************************************************)
\* The longest body vector a tree is built from.
MaxBodies == 4

\* The largest tree that is stepped, and the number of steps made.
MaxStepBodies == 3

MaxSteps == 2

---------------------------------------------------------------------------
(***************************************************************************)
(* f64 arithmetic.                                                         *)
(***************************************************************************)
Abs(i) == IF i < 0 THEN -i ELSE i

Sgn(i) == IF i < 0 THEN -1 ELSE IF i > 0 THEN 1 ELSE 0

RECURSIVE Gcd(_, _)
Gcd(a, b) == IF b = 0 THEN a ELSE Gcd(b, a % b)

NaN == [n |-> 0, d |-> 0]

Inf(s) == [n |-> s, d |-> 0]

\* The finite value p/q (q # 0) in lowest terms.
FracOf(p, q) ==
    LET g == Gcd(Abs(p), Abs(q))
        s == IF q < 0 THEN -1 ELSE 1
    IN  [n |-> (s * p) \div g, d |-> Abs(q) \div g]

\* The operations on f64 take their operands by value: Frac, FAdd, FMul, FDiv
\* and FLt evaluate each operand once and work on the values.
Frac(p, q) == CHOOSE r \in { FracOf(x, y) : x \in {p}, y \in {q} } : TRUE

F(i) == [n |-> i, d |-> 1]

IsNaN(a) == a.d = 0 /\ a.n = 0

IsInf(a) == a.d = 0 /\ a.n # 0

IsFinite(a) == a.d > 0

FNeg(a) == [n |-> -a.n, d |-> a.d]

FAddOf(a, b) ==
    IF IsNaN(a) \/ IsNaN(b) THEN NaN
    ELSE IF IsInf(a) /\ IsInf(b) THEN (IF a.n = b.n THEN a ELSE NaN)
    ELSE IF IsInf(a) THEN a
    ELSE IF IsInf(b) THEN b
    ELSE FracOf(a.n * b.d + b.n * a.d, a.d * b.d)

FAdd(a, b) == CHOOSE r \in { FAddOf(x, y) : x \in {a}, y \in {b} } : TRUE

FSub(a, b) == FAdd(a, FNeg(b))

FMulOf(a, b) ==
    IF IsNaN(a) \/ IsNaN(b) THEN NaN
    ELSE IF IsInf(a) \/ IsInf(b)
         THEN (IF a.n = 0 \/ b.n = 0 THEN NaN ELSE Inf(Sgn(a.n) * Sgn(b.n)))
    ELSE FracOf(a.n * b.n, a.d * b.d)

FMul(a, b) == CHOOSE r \in { FMulOf(x, y) : x \in {a}, y \in {b} } : TRUE

FDivOf(a, b) ==
    IF IsNaN(a) \/ IsNaN(b) THEN NaN
    ELSE IF IsInf(a) THEN (IF IsInf(b) THEN NaN
                           ELSE Inf(Sgn(a.n) * (IF b.n < 0 THEN -1 ELSE 1)))
    ELSE IF IsInf(b) THEN F(0)
    ELSE IF b.n = 0 THEN (IF a.n = 0 THEN NaN ELSE Inf(Sgn(a.n)))
    ELSE FracOf(a.n * b.d, a.d * b.n)

FDiv(a, b) == CHOOSE r \in { FDivOf(x, y) : x \in {a}, y \in {b} } : TRUE

\* a < b; every comparison with NaN is false.
FLtOf(a, b) ==
    /\ ~IsNaN(a)
    /\ ~IsNaN(b)
    /\ IF IsInf(a) \/ IsInf(b)
       THEN (IsInf(a) /\ a.n < 0 /\ ~(IsInf(b) /\ b.n < 0))
            \/ (IsInf(b) /\ b.n > 0 /\ ~(IsInf(a) /\ a.n > 0))
       ELSE a.n * b.d < b.n * a.d

FLt(a, b) == \E x \in {a}, y \in {b} : FLtOf(x, y)

FGt(a, b) == FLt(b, a)

FLe(a, b) == ~IsNaN(a) /\ ~IsNaN(b) /\ ~FLt(b, a)

FGe(a, b) == FLe(b, a)

\* f64::max and f64::min: when one argument is NaN the other is returned.
FMax(a, b) == IF IsNaN(a) THEN b ELSE IF IsNaN(b) THEN a ELSE IF FLt(a, b) THEN b ELSE a

FMin(a, b) == IF IsNaN(a) THEN b ELSE IF IsNaN(b) THEN a ELSE IF FLt(b, a) THEN b ELSE a

\* x / sqrt(d2) * sqrt(d2): x when sqrt(d2) is finite and not zero.  When it is
\* zero, x (a squared component of the same difference) is zero and 0/0 is
\* NaN; an infinite or NaN magnitude also ends in NaN.
DivMulSqrt(x, d2) ==
    IF IsFinite(d2) /\ d2.n > 0 /\ ~IsNaN(x) THEN x ELSE NaN

---------------------------------------------------------------------------
(***************************************************************************)
(* Dimension and Entity.                                                   *)
(***************************************************************************)
Dimensions == {"X", "Y", "Z"}

Entity(x, y, z, vx, vy, vz, mass, radius, theta, time_step) ==
    [vx |-> vx, vy |-> vy, vz |-> vz, x |-> x, y |-> y, z |-> z,
     radius |-> radius, mass |-> mass, theta |-> theta, time_step |-> time_step]

get_dim(e, dim) ==
    IF dim = "X" THEN e.x ELSE IF dim = "Y" THEN e.y ELSE e.z


---------------------------------------------------------------------------
(***************************************************************************)
(* Geometry utilities (crate::utilities, used by node.rs line 3).          *)
(***************************************************************************)
RECURSIVE FoldMax(_, _, _)
FoldMax(pts, dim, i) ==
    IF i = 1 THEN get_dim(pts[1], dim)
    ELSE LET m == FoldMax(pts, dim, i - 1)
         IN  IF FGt(get_dim(pts[i], dim), m) THEN get_dim(pts[i], dim) ELSE m

RECURSIVE FoldMin(_, _, _)
FoldMin(pts, dim, i) ==
    IF i = 1 THEN get_dim(pts[1], dim)
    ELSE LET m == FoldMin(pts, dim, i - 1)
         IN  IF FLt(get_dim(pts[i], dim), m) THEN get_dim(pts[i], dim) ELSE m

\* The exact bounding box of a non-empty slice.
max_min_xyz(pts) ==
    [x_max |-> FoldMax(pts, "X", Len(pts)), x_min |-> FoldMin(pts, "X", Len(pts)),
     y_max |-> FoldMax(pts, "Y", Len(pts)), y_min |-> FoldMin(pts, "Y", Len(pts)),
     z_max |-> FoldMax(pts, "Z", Len(pts)), z_min |-> FoldMin(pts, "Z", Len(pts))]

\* The per-axis spans, axis_max - axis_min.
xyz_distances(pts) ==
    LET b == max_min_xyz(pts)
    IN  [x |-> FSub(b.x_max, b.x_min), y |-> FSub(b.y_max, b.y_min),
         z |-> FSub(b.z_max, b.z_min)]

Permutations(n) ==
    {f \in [1..n -> 1..n] : \A i, j \in 1..n : f[i] = f[j] => i = j}

\* The in-place median partition.  The slice is rearranged so that the
\* elements before split_index are not greater than the median on the axis and
\* the elements from split_index on are not less; which of the arrangements
\* that do so is produced is left open, so every one of them is a result.
\* split_index is the middle, len / 2, and split_value the coordinate there.
find_median(dim, pts) ==
    LET n == Len(pts)
        mid == n \div 2
    IN  { [pts |-> q, split_value |-> get_dim(q[mid + 1], dim), split_index |-> mid] :
            q \in { [i \in 1..n |-> pts[f[i]]] : f \in
                      { g \in Permutations(n) :
                          /\ \A i \in 1..mid :
                               ~FGt(get_dim(pts[g[i]], dim), get_dim(pts[g[mid + 1]], dim))
                          /\ \A i \in (mid + 1)..n :
                               ~FLt(get_dim(pts[g[i]], dim), get_dim(pts[g[mid + 1]], dim)) } } }

---------------------------------------------------------------------------
(***************************************************************************)
(* Node.                                                                   *)
(***************************************************************************)
None == << >>

Some(v) == << v >>

\* Node::new: a node with default values.
Node_new(theta, time_step) ==
    [split_dimension |-> None, split_value |-> F(0), left |-> None, right |-> None,
     points |-> None,
     center_of_mass |-> <<F(0), F(0), F(0)>>,
     total_mass |-> F(0), r_max |-> F(0),
     x_max |-> F(0), x_min |-> F(0), y_max |-> F(0), y_min |-> F(0),
     z_max |-> F(0), z_min |-> F(0),
     theta |-> theta, time_step |-> time_step]

\* set_max_mins with the min and the max of the X bounds exchanged.
set_max_mins_x_swapped(self) ==
    LET l == self.left[1]
        r == self.right[1]
    IN  [self EXCEPT !.r_max = FMax(l.r_max, r.r_max),
                     !.x_min = FMax(l.x_min, r.x_min),
                     !.x_max = FMin(l.x_max, r.x_max),
                     !.y_min = FMin(l.y_min, r.y_min),
                     !.y_max = FMax(l.y_max, r.y_max),
                     !.z_min = FMin(l.z_min, r.z_min),
                     !.z_max = FMax(l.z_max, r.z_max)]

\* Node::set_max_mins: the box and r_max of a node from those of its children.
set_max_mins(self) ==
    LET l == self.left[1]
        r == self.right[1]
    IN  [self EXCEPT !.r_max = FMax(l.r_max, r.r_max),
                     !.x_min = FMin(l.x_min, r.x_min),
                     !.x_max = FMax(l.x_max, r.x_max),
                     !.y_min = FMin(l.y_min, r.y_min),
                     !.y_max = FMax(l.y_max, r.y_max),
                     !.z_min = FMin(l.z_min, r.z_min),
                     !.z_max = FMax(l.z_max, r.z_max)]

\* Node::max_distance: the largest side of the box.
max_distance(self) ==
    FMax(FSub(self.x_max, self.x_min),
         FMax(FSub(self.y_max, self.y_min), FSub(self.z_max, self.z_min)))

\* traverse_tree_helper without the match on the left child.
RECURSIVE traverse_tree_helper_skip_left(_)
traverse_tree_helper_skip_left(self) ==
    IF self.right # None THEN traverse_tree_helper_skip_left(self.right[1])
    ELSE IF self.points # None THEN self.points[1] ELSE << >>

\* Node::traverse_tree_helper.  The expect() on points cannot fail on a node
\* the builder made (a node without a right child is a leaf); a node with
\* neither contributes nothing here.
RECURSIVE traverse_tree_helper(_)
traverse_tree_helper(self) ==
    (IF self.left # None THEN traverse_tree_helper(self.left[1]) ELSE << >>)
    \o (IF self.right # None THEN traverse_tree_helper(self.right[1])
        ELSE IF self.points # None THEN self.points[1] ELSE << >>)

\* The fold of the leaf branch: (x_total, y_total, z_total, max_radius, total_mass).
RECURSIVE LeafFold(_, _)
LeafFold(pts, i) ==
    IF i = 0 THEN <<F(0), F(0), F(0), F(0), F(0)>>
    ELSE LET acc == LeafFold(pts, i - 1)
             pt == pts[i]
         IN  << FAdd(acc[1], FMul(pt.x, pt.mass)),
                FAdd(acc[2], FMul(pt.y, pt.mass)),
                FAdd(acc[3], FMul(pt.z, pt.mass)),
                IF FGt(acc[4], pt.radius) THEN acc[4] ELSE pt.radius,
                FAdd(acc[5], pt.mass) >>

\* The leaf branch with the coordinate sums divided by the number of bodies
\* instead of the total mass.
LeafNode_divided_by_count(pts, theta, time_step) ==
    LET acc == LeafFold(pts, Len(pts))
        b == max_min_xyz(pts)
    IN  [center_of_mass |-> << FDiv(acc[1], F(Len(pts))), FDiv(acc[2], F(Len(pts))),
                               FDiv(acc[3], F(Len(pts))) >>,
         total_mass |-> acc[5],
         r_max |-> acc[4],
         points |-> Some(pts),
         left |-> None, right |-> None,
         split_dimension |-> None, split_value |-> F(0),
         x_max |-> b.x_max, x_min |-> b.x_min,
         y_max |-> b.y_max, y_min |-> b.y_min,
         z_max |-> b.z_max, z_min |-> b.z_min,
         theta |-> theta, time_step |-> time_step]

\* The leaf branch of Node::new_root_node.
LeafNode(pts, theta, time_step) ==
    LET acc == LeafFold(pts, Len(pts))
        b == max_min_xyz(pts)
    IN  [center_of_mass |-> << FDiv(acc[1], acc[5]), FDiv(acc[2], acc[5]),
                               FDiv(acc[3], acc[5]) >>,
         total_mass |-> acc[5],
         r_max |-> acc[4],
         points |-> Some(pts),
         left |-> None, right |-> None,
         split_dimension |-> None, split_value |-> F(0),
         x_max |-> b.x_max, x_min |-> b.x_min,
         y_max |-> b.y_max, y_min |-> b.y_min,
         z_max |-> b.z_max, z_min |-> b.z_min,
         theta |-> theta, time_step |-> time_step]

\* The leaf test off by one: a slice of max_pts + 1 bodies becomes a leaf.
IsLeafSlice_off_by_one(pts, max_pts) == Len(pts) <= max_pts + 1

\* The leaf test strict: a slice of exactly max_pts bodies is split again.
IsLeafSlice_strict(pts, max_pts) == Len(pts) < max_pts

\* The test of Node::new_root_node for a slice small enough to become a leaf.
IsLeafSlice(pts, max_pts) == Len(pts) <= max_pts

\* The axis choice with >= for >: Z before Y before X when spans tie.
SplitDimension_ge(dist) ==
    IF FGe(dist.z, dist.y) /\ FGe(dist.z, dist.x) THEN "Z"
    ELSE IF FGe(dist.y, dist.x) /\ FGe(dist.y, dist.z) THEN "Y"
    ELSE "X"

\* The axis the builder splits on, from the three spans.
SplitDimension(dist) ==
    IF FGt(dist.z, dist.y) /\ FGt(dist.z, dist.x) THEN "Z"
    ELSE IF FGt(dist.y, dist.x) /\ FGt(dist.y, dist.z) THEN "Y"
    ELSE "X"

\* The two sub-slices of pts.split_at_mut(split_index).
LowerSlice(pts, split_index) == SubSeq(pts, 1, split_index)

UpperSlice(pts, split_index) == SubSeq(pts, split_index + 1, Len(pts))

\* The interior branch without the assignment of split_value.
InteriorNode_no_split_value(split_dimension, split_value, left, right, theta, time_step) ==
    LET root_node == Node_new(theta, time_step)
        left_mass == left.total_mass
        right_mass == right.total_mass
        total_mass == FAdd(left_mass, right_mass)
        center(k) == FDiv(FAdd(FMul(left_mass, left.center_of_mass[k]),
                               FMul(right_mass, right.center_of_mass[k])),
                          total_mass)
    IN  set_max_mins([root_node EXCEPT
                        !.split_dimension = Some(split_dimension),
                        !.left = Some(left),
                        !.right = Some(right),
                        !.center_of_mass = <<center(1), center(2), center(3)>>])

\* The interior branch without the assignment of split_dimension.
InteriorNode_no_split_dimension(split_dimension, split_value, left, right, theta, time_step) ==
    LET root_node == Node_new(theta, time_step)
        left_mass == left.total_mass
        right_mass == right.total_mass
        total_mass == FAdd(left_mass, right_mass)
        center(k) == FDiv(FAdd(FMul(left_mass, left.center_of_mass[k]),
                               FMul(right_mass, right.center_of_mass[k])),
                          total_mass)
    IN  set_max_mins([root_node EXCEPT
                        !.split_value = split_value,
                        !.left = Some(left),
                        !.right = Some(right),
                        !.center_of_mass = <<center(1), center(2), center(3)>>])

\* InteriorNode with the two children attached the other way round: the lower
\* sub-slice hangs on the right and the upper one on the left.
InteriorNode_children_swapped(split_dimension, split_value, left, right, theta, time_step) ==
    LET root_node == Node_new(theta, time_step)
        left_mass == left.total_mass
        right_mass == right.total_mass
        total_mass == FAdd(left_mass, right_mass)
        center(k) == FDiv(FAdd(FMul(left_mass, left.center_of_mass[k]),
                               FMul(right_mass, right.center_of_mass[k])),
                          total_mass)
    IN  set_max_mins([root_node EXCEPT
                        !.split_dimension = Some(split_dimension),
                        !.split_value = split_value,
                        !.left = Some(right),
                        !.right = Some(left),
                        !.center_of_mass = <<center(1), center(2), center(3)>>])

\* The interior branch of Node::new_root_node once both children are built:
\* the fields it assigns to the node Node::new returned.
InteriorNode(split_dimension, split_value, left, right, theta, time_step) ==
    LET root_node == Node_new(theta, time_step)
        left_mass == left.total_mass
        right_mass == right.total_mass
        total_mass == FAdd(left_mass, right_mass)
        center(k) == FDiv(FAdd(FMul(left_mass, left.center_of_mass[k]),
                               FMul(right_mass, right.center_of_mass[k])),
                          total_mass)
    IN  set_max_mins([root_node EXCEPT
                        !.split_dimension = Some(split_dimension),
                        !.split_value = split_value,
                        !.left = Some(left),
                        !.right = Some(right),
                        !.center_of_mass = <<center(1), center(2), center(3)>>])

\* Node::new_root_node: every tree the build of pts can return, one for each
\* arrangement find_median may leave the slices in.
RECURSIVE new_root_node(_, _, _, _)
new_root_node(pts, theta, max_pts, time_step) ==
    IF IsLeafSlice(pts, max_pts)
    THEN { LeafNode(pts, theta, time_step) }
    ELSE LET split_dimension == SplitDimension(xyz_distances(pts))
         IN  UNION { { InteriorNode(split_dimension, m.split_value, l, r, theta, time_step) :
                         l \in new_root_node(LowerSlice(m.pts, m.split_index),
                                             theta, max_pts, time_step),
                         r \in new_root_node(UpperSlice(m.pts, m.split_index),
                                             theta, max_pts, time_step) } :
                     m \in find_median(split_dimension, pts) }

---------------------------------------------------------------------------
(***************************************************************************)
(* Entity: the force walk and the integration step.                        *)
(***************************************************************************)
\* Node::as_entity: the node as one body at its centre of mass.
as_entity(self) ==
    Entity(self.center_of_mass[1], self.center_of_mass[2], self.center_of_mass[3],
           F(0), F(0), F(0), self.total_mass, F(0), self.theta, self.time_step)

Sq(a) == FMul(a, a)

\* Entity::distance_vector: the componentwise squared differences.
distance_vector(self, other) ==
    << Sq(FSub(other.x, self.x)), Sq(FSub(other.y, self.y)), Sq(FSub(other.z, self.z)) >>

\* Entity::distance_squared.
distance_squared(self, other) ==
    LET v == distance_vector(self, other)
    IN  FAdd(FAdd(v[1], v[2]), v[3])

\* theta_exceeded with theta where the code has theta * theta.
theta_exceeded_theta_not_squared(self, node) ==
    FGt(FMul(distance_squared(self, as_entity(node)), self.theta),
        FMul(max_distance(node), max_distance(node)))

\* theta_exceeded with the theta stored in the node in place of the body's own.
theta_exceeded_theta_of_node(self, node) ==
    FGt(FMul(distance_squared(self, as_entity(node)), FMul(node.theta, node.theta)),
        FMul(max_distance(node), max_distance(node)))

\* Entity::theta_exceeded.
theta_exceeded(self, node) ==
    FGt(FMul(distance_squared(self, as_entity(node)), FMul(self.theta, self.theta)),
        FMul(max_distance(node), max_distance(node)))

\* Entity::get_gravitational_acceleration, other being an entity or a node
\* taken as_entity: d_vector / d_magnitude * d_magnitude * other.mass.
get_gravitational_acceleration(self, other) ==
    LET d2 == distance_squared(self, other)
        d_vector == distance_vector(self, other)
    IN  << FMul(DivMulSqrt(d_vector[1], d2), other.mass),
           FMul(DivMulSqrt(d_vector[2], d2), other.mass),
           FMul(DivMulSqrt(d_vector[3], d2), other.mass) >>

VAdd(a, b) == << FAdd(a[1], b[1]), FAdd(a[2], b[2]), FAdd(a[3], b[3]) >>

\* The loop over the points of a leaf child.
RECURSIVE LeafAcceleration(_, _, _, _)
LeafAcceleration(self, points, i, acceleration) ==
    IF i > Len(points) THEN acceleration
    ELSE LeafAcceleration(self, points, i + 1,
                          VAdd(acceleration, get_gravitational_acceleration(self, points[i])))

\* One of the two match blocks of Entity::get_entity_acceleration_from, the
\* one on node.left or the one on node.right: what the child adds to the
\* running acceleration.
RECURSIVE get_entity_acceleration_from(_, _)
RECURSIVE child_acceleration(_, _, _)
\* The match block with an approximated child opened as well: the point mass of
\* the child and the walk over its children are both added.
child_acceleration_point_and_walk(self, acceleration, child) ==
    IF child = None THEN acceleration
    ELSE IF child[1].points # None
         THEN LeafAcceleration(self, child[1].points[1], 1, acceleration)
    ELSE IF theta_exceeded(self, child[1])
         THEN VAdd(VAdd(acceleration,
                        get_gravitational_acceleration(self, as_entity(child[1]))),
                   get_entity_acceleration_from(self, child[1]))
    ELSE VAdd(acceleration, get_entity_acceleration_from(self, child[1]))

child_acceleration(self, acceleration, child) ==
    IF child = None THEN acceleration
    ELSE IF child[1].points # None
         THEN LeafAcceleration(self, child[1].points[1], 1, acceleration)
    ELSE IF theta_exceeded(self, child[1])
         THEN VAdd(acceleration, get_gravitational_acceleration(self, as_entity(child[1])))
    ELSE VAdd(acceleration, get_entity_acceleration_from(self, child[1]))

\* Entity::get_entity_acceleration_from.
get_entity_acceleration_from(self, node) ==
    LET acceleration ==
            child_acceleration(self,
                               child_acceleration(self, <<F(0), F(0), F(0)>>, node.left),
                               node.right)
    IN  VAdd(acceleration, acceleration)

\* apply_gravity_from with the position advanced by the old velocity.
apply_gravity_from_old_velocity(self, node) ==
    LET acceleration == get_entity_acceleration_from(self, node)
    IN  [vx |-> FAdd(self.vx, FMul(acceleration[1], self.time_step)),
         vy |-> FAdd(self.vy, FMul(acceleration[2], self.time_step)),
         vz |-> FAdd(self.vz, FMul(acceleration[3], self.time_step)),
         x |-> FAdd(self.x, FMul(self.vx, self.time_step)),
         y |-> FAdd(self.y, FMul(self.vy, self.time_step)),
         z |-> FAdd(self.z, FMul(self.vz, self.time_step)),
         radius |-> self.radius, mass |-> self.mass,
         theta |-> self.theta, time_step |-> self.time_step]

\* apply_gravity_from with mass and radius of the result exchanged.
apply_gravity_from_mass_radius_swapped(self, node) ==
    LET acceleration == get_entity_acceleration_from(self, node)
        vx == FAdd(self.vx, FMul(acceleration[1], self.time_step))
        vy == FAdd(self.vy, FMul(acceleration[2], self.time_step))
        vz == FAdd(self.vz, FMul(acceleration[3], self.time_step))
    IN  [vx |-> vx, vy |-> vy, vz |-> vz,
         x |-> FAdd(self.x, FMul(vx, self.time_step)),
         y |-> FAdd(self.y, FMul(vy, self.time_step)),
         z |-> FAdd(self.z, FMul(vz, self.time_step)),
         radius |-> self.mass, mass |-> self.radius,
         theta |-> self.theta, time_step |-> self.time_step]

\* Entity::apply_gravity_from.
apply_gravity_from(self, node) ==
    LET acceleration == get_entity_acceleration_from(self, node)
        vx == FAdd(self.vx, FMul(acceleration[1], self.time_step))
        vy == FAdd(self.vy, FMul(acceleration[2], self.time_step))
        vz == FAdd(self.vz, FMul(acceleration[3], self.time_step))
    IN  [vx |-> vx, vy |-> vy, vz |-> vz,
         x |-> FAdd(self.x, FMul(vx, self.time_step)),
         y |-> FAdd(self.y, FMul(vy, self.time_step)),
         z |-> FAdd(self.z, FMul(vz, self.time_step)),
         radius |-> self.radius, mass |-> self.mass,
         theta |-> self.theta, time_step |-> self.time_step]

---------------------------------------------------------------------------
(***************************************************************************)
(* GravTree.                                                               *)
(***************************************************************************)
\* GravTree::new storing max_pts where the number of bodies belongs.
GravTree_new_count_of_leaf(pts, theta, max_pts, time_step) ==
    { [root |-> r, number_of_entities |-> max_pts, theta |-> theta,
       max_pts |-> max_pts, time_step |-> time_step] :
        r \in new_root_node(pts, theta, max_pts, time_step) }

\* GravTree::new: every tree it can return for pts.
GravTree_new(pts, theta, max_pts, time_step) ==
    { [root |-> r, number_of_entities |-> Len(pts), theta |-> theta,
       max_pts |-> max_pts, time_step |-> time_step] :
        r \in new_root_node(pts, theta, max_pts, time_step) }

\* as_vec without the match on the left child of the root.
as_vec_skip_left(self) ==
    LET node == self.root
    IN  IF node.right # None THEN traverse_tree_helper(node.right[1])
        ELSE IF node.points # None THEN node.points[1] ELSE << >>

\* GravTree::as_vec.
as_vec(self) ==
    LET node == self.root
    IN  (IF node.left # None THEN traverse_tree_helper(node.left[1]) ELSE << >>)
        \o (IF node.right # None THEN traverse_tree_helper(node.right[1])
            ELSE IF node.points # None THEN node.points[1] ELSE << >>)

\* GravTree::get_number_of_entities.
get_number_of_entities(self) == self.number_of_entities

\* The vector the parallel map of GravTree::time_step collects: slot i holds
\* apply_gravity_from of slot i of the traversal.
post_gravity_entity_vec(self) ==
    LET v == traverse_tree_helper(self.root)
    IN  [i \in 1..Len(v) |-> apply_gravity_from(v[i], self.root)]

\* time_step with self.time_step and self.theta handed over in each other's
\* place.
time_step_theta_swapped(self) ==
    GravTree_new(post_gravity_entity_vec(self), self.time_step, self.max_pts, self.theta)

\* GravTree::time_step: every tree it can return.
time_step(self) ==
    GravTree_new(post_gravity_entity_vec(self), self.theta, self.max_pts, self.time_step)

---------------------------------------------------------------------------
(***************************************************************************)
(* The inputs of the model.                                                *)
(***************************************************************************)
\* 0.2, the theta and time step of the repository's tests.
Fifth == Frac(1, 5)

\* The bodies a vector is drawn from: those of the centre-of-mass test of
\* lib.rs and three more, so that every axis is the widest for some slice,
\* spans tie, masses differ and one body moves.
Body(x, y, z, vx, mass, radius) ==
    Entity(F(x), F(y), F(z), F(vx), F(0), F(0), F(mass), F(radius), Fifth, Fifth)

Bodies ==
    { Body(1, 2, 3, 0, 2, 1), Body(2, 1, 3, 0, 2, 1),
      Body(0, 0, 1, 1, 1, 2), Body(0, 0, 2, 0, 3, 0) }

RECURSIVE SeqsOfLen(_, _)
SeqsOfLen(S, n) ==
    IF n = 0 THEN { << >> }
    ELSE { Append(q, e) : q \in SeqsOfLen(S, n - 1), e \in S }

\* The non-empty body vectors of at most MaxBodies bodies.
BodyVectors == UNION { SeqsOfLen(Bodies, n) : n \in 1..MaxBodies }

\* max_pts: 1 makes the deepest trees, 3 is the value of the tests.
MaxPtsChoices == {1, 3}

---------------------------------------------------------------------------
(***************************************************************************)
(* The state machine: a caller builds a tree from a vector and steps it.   *)
(***************************************************************************)
VARIABLES
    input,     \* the vector handed to GravTree::new, as it was at the call
    arg_theta, arg_max_pts, arg_time_step,   \* the other arguments of the call
    tree,      \* Option<GravTree>: the caller's current tree
    steps,     \* the number of time_step calls made
    workers,   \* the size of the thread pool of the parallel map
    pc,        \* "idle", or "map" while a time_step is inside its parallel map
    map_input, \* the vector the map iterates over (the traversal of the tree)
    map_task,  \* per index of map_input: "todo", "run" or "done"
    map_output, \* per index of map_input: Option<Entity>, the slot collect fills
    file,      \* Option<text>: the data file on disk, a sequence of characters
    written,   \* Option<Vec<Entity>>: the as_vec() of the tree last written
    result,    \* Option<tag>: Ok or Err of the last from_data_file, None once
               \* the file is written anew
    calls      \* the slices whose Node::new_root_node call is still to be made,
               \* the next one first, while a build is followed call by call

vars == << input, arg_theta, arg_max_pts, arg_time_step, tree, steps,
           workers, pc, map_input, map_task, map_output, file, written, result,
           calls >>

\* The variables of the parallel map and those of the data file.
map_vars == << workers, pc, map_input, map_task, map_output >>

file_vars == << file, written, result >>

\* No time_step is inside its parallel map.
NoMap == pc = "idle" /\ map_input = << >> /\ map_task = << >> /\ map_output = << >>

\* No data file has been written or read.
NoFile == file = None /\ written = None /\ result = None

\* No build is followed call by call.
NoCalls == calls = << >>

Init ==
    /\ input \in BodyVectors
    /\ arg_theta = Fifth
    /\ arg_max_pts \in MaxPtsChoices
    /\ arg_time_step = Fifth
    /\ tree = None
    /\ steps = 0
    /\ workers = 1
    /\ NoMap
    /\ NoCalls
    /\ NoFile

\* tree = GravTree::new(&mut input, theta, max_pts, time_step)
New ==
    /\ tree = None
    /\ \E t \in GravTree_new(input, arg_theta, arg_max_pts, arg_time_step) :
         tree' = Some(t)
    /\ UNCHANGED << input, arg_theta, arg_max_pts, arg_time_step, steps,
                    map_vars, file_vars, calls >>

\* tree = tree.time_step(), the call taken as one step.
TimeStep ==
    /\ tree # None
    /\ pc = "idle"
    /\ steps < MaxSteps
    /\ tree[1].number_of_entities <= MaxStepBodies
    /\ \E t \in time_step(tree[1]) : tree' = Some(t)
    /\ steps' = steps + 1
    /\ UNCHANGED << input, arg_theta, arg_max_pts, arg_time_step,
                    map_vars, file_vars, calls >>

Next == New \/ TimeStep

Spec == Init /\ [][Next]_vars

---------------------------------------------------------------------------
(***************************************************************************)
(* Vocabulary of the properties.                                           *)
(***************************************************************************)
Built == tree # None

Root == tree[1].root

IsLeaf(node) == node.points # None

IsInterior(node) == node.left # None /\ node.right # None

\* Every node of the tree under (and including) node.
RECURSIVE SubNodes(_)
SubNodes(node) ==
    {node}
    \cup (IF node.left # None THEN SubNodes(node.left[1]) ELSE {})
    \cup (IF node.right # None THEN SubNodes(node.right[1]) ELSE {})

\* The bodies stored in the leaves under node, left to right.
RECURSIVE BodiesUnder(_)
BodiesUnder(node) ==
    (IF node.points # None THEN node.points[1] ELSE << >>)
    \o (IF node.left # None THEN BodiesUnder(node.left[1]) ELSE << >>)
    \o (IF node.right # None THEN BodiesUnder(node.right[1]) ELSE << >>)

Range(q) == { q[i] : i \in 1..Len(q) }

Occurrences(q, e) == Cardinality({ i \in 1..Len(q) : q[i] = e })

IsPermutationOf(p, q) ==
    /\ Len(p) = Len(q)
    /\ \A e \in Range(p) \cup Range(q) : Occurrences(p, e) = Occurrences(q, e)

FiniteBody(e) ==
    IsFinite(e.x) /\ IsFinite(e.y) /\ IsFinite(e.z) /\ IsFinite(e.mass)

\* A node over a valid body set: every coordinate and mass is a finite number.
FiniteNode(node) == \A e \in Range(BodiesUnder(node)) : FiniteBody(e)

\* The sum of the masses of a sequence of bodies.
RECURSIVE MassOf(_)
MassOf(q) ==
    IF q = << >> THEN F(0) ELSE FAdd(Head(q).mass, MassOf(Tail(q)))

\* The sum of mass * coordinate of a sequence of bodies.
RECURSIVE MomentOf(_, _)
MomentOf(q, dim) ==
    IF q = << >> THEN F(0)
    ELSE FAdd(FMul(Head(q).mass, get_dim(Head(q), dim)), MomentOf(Tail(q), dim))

\* The mass-weighted mean position of a sequence of bodies.
WeightedMean(q) ==
    << FDiv(MomentOf(q, "X"), MassOf(q)), FDiv(MomentOf(q, "Y"), MassOf(q)),
       FDiv(MomentOf(q, "Z"), MassOf(q)) >>

\* The span of a set of finite bodies on one axis.
SpanOf(q, dim) ==
    LET c == { get_dim(e, dim) : e \in Range(q) }
        hi == CHOOSE a \in c : \A b \in c : FLe(b, a)
        lo == CHOOSE a \in c : \A b \in c : FLe(a, b)
    IN  FSub(hi, lo)

---------------------------------------------------------------------------
(***************************************************************************)
(* Properties.                                                             *)
(***************************************************************************)
\* C1.  Count preservation: a time_step returns a tree whose as_vec() has as
\* many bodies as the as_vec() of the tree it was called on, so the count of
\* the first tree is kept through any number of steps.
C1_CountPreservation ==
    [][(tree # None /\ tree' # None) =>
          Len(as_vec(tree'[1])) = Len(as_vec(tree[1]))]_vars

\* Two steps were made on a three-body tree whose root has an interior child.
C1_Witness ==
    /\ Built
    /\ steps = 2
    /\ IsInterior(Root)
    /\ \E c \in {Root.left[1], Root.right[1]} : IsInterior(c)
    /\ Len(as_vec(tree[1])) = 3

\* C2.  Traversal completeness: as_vec() of the tree GravTree::new built from
\* V is a permutation of V (every body, with its multiplicity, nothing else),
\* for a leaf root and for an interior root.
C2_TraversalCompleteness ==
    (Built /\ steps = 0) => IsPermutationOf(as_vec(tree[1]), input)

\* A four-body vector holding one body twice was built into a tree with an
\* interior root, and the traversal returns it in another order.
C2_Witness ==
    /\ Built
    /\ steps = 0
    /\ IsInterior(Root)
    /\ Len(input) = 4
    /\ \E i, j \in 1..Len(input) : i # j /\ input[i] = input[j]
    /\ as_vec(tree[1]) # input

\* C3.  Mass conservation: total_mass of every node, leaf or interior, is the
\* sum of the masses of the bodies under it, and that of an interior node is
\* the sum of its children's total_mass.
C3_MassConservation ==
    Built => \A node \in SubNodes(Root) :
        /\ node.total_mass = MassOf(BodiesUnder(node))
        /\ IsInterior(node) =>
             node.total_mass = FAdd(node.left[1].total_mass, node.right[1].total_mass)

\* C4.  Centre-of-mass consistency: center_of_mass of every interior node of
\* a tree built from bodies of positive mass is the mass-weighted mean
\* position of the bodies under it, and the total mass it divides by is not
\* zero.
C4_ComConsistency ==
    (Built /\ steps = 0) => \A node \in SubNodes(Root) : IsInterior(node) =>
        /\ FAdd(node.left[1].total_mass, node.right[1].total_mass) # F(0)
        /\ node.center_of_mass = WeightedMean(BodiesUnder(node))

\* C5.  Leaf-root centre of mass: a vector of 1 <= n <= max_pts bodies is
\* built into a leaf root, and center_of_mass of a leaf root is
\* sum(mass * position) / sum(mass) of its bodies on each axis; the bodies
\* (1,2,3,m=2) and (2,1,3,m=2) with max_pts = 3 give (1.5, 1.5, 3.0).
C5_LeafRootCom ==
    Built =>
        /\ (steps = 0 /\ Len(input) <= arg_max_pts) =>
             (IsLeaf(Root) /\ Root.left = None /\ Root.right = None
              /\ Root.points[1] = input)
        /\ (IsLeaf(Root) /\ FiniteNode(Root)) =>
             Root.center_of_mass = WeightedMean(Root.points[1])
        /\ (steps = 0 /\ arg_max_pts = 3
            /\ input = << Body(1, 2, 3, 0, 2, 1), Body(2, 1, 3, 0, 2, 1) >>) =>
             Root.center_of_mass = << Frac(3, 2), Frac(3, 2), F(3) >>

\* The two bodies of the example were built with max_pts = 3.
C5_Witness ==
    /\ Built
    /\ steps = 0
    /\ arg_max_pts = 3
    /\ input = << Body(1, 2, 3, 0, 2, 1), Body(2, 1, 3, 0, 2, 1) >>
    /\ IsLeaf(Root)
    /\ Root.center_of_mass = << Frac(3, 2), Frac(3, 2), F(3) >>

\* The box of a node, as (min, max) on an axis.
BoxMin(node, dim) ==
    IF dim = "X" THEN node.x_min ELSE IF dim = "Y" THEN node.y_min ELSE node.z_min

BoxMax(node, dim) ==
    IF dim = "X" THEN node.x_max ELSE IF dim = "Y" THEN node.y_max ELSE node.z_max

\* C6.  Bounding box: for every node over finite bodies and every axis, each
\* body under the node lies between axis_min and axis_max, each of the two
\* bounds is the coordinate of some body under the node, and the box of an
\* interior node is the min of its children's mins and the max of their maxes.
C6_BoundingBox ==
    Built => \A node \in SubNodes(Root) : FiniteNode(node) =>
        \A dim \in Dimensions :
            /\ \A e \in Range(BodiesUnder(node)) :
                 /\ FLe(BoxMin(node, dim), get_dim(e, dim))
                 /\ FLe(get_dim(e, dim), BoxMax(node, dim))
            /\ \E e \in Range(BodiesUnder(node)) : get_dim(e, dim) = BoxMin(node, dim)
            /\ \E e \in Range(BodiesUnder(node)) : get_dim(e, dim) = BoxMax(node, dim)
            /\ IsInterior(node) =>
                 /\ BoxMin(node, dim) =
                      FMin(BoxMin(node.left[1], dim), BoxMin(node.right[1], dim))
                 /\ BoxMax(node, dim) =
                      FMax(BoxMax(node.left[1], dim), BoxMax(node.right[1], dim))

\* A tree of four finite bodies whose root has two interior children and a
\* box that is wider than either child's on some axis.
C6_Witness ==
    /\ Built
    /\ FiniteNode(Root)
    /\ IsInterior(Root)
    /\ IsInterior(Root.left[1])
    /\ IsInterior(Root.right[1])
    /\ \E dim \in Dimensions :
         /\ FLt(BoxMin(Root, dim), BoxMin(Root.right[1], dim))
         /\ FLt(BoxMax(Root.left[1], dim), BoxMax(Root, dim))

\* C7.  Partition correctness: for every interior node over finite bodies,
\* with split dimension d and split_value v, every body of the left subtree
\* has coordinate d <= v and every body of the right subtree has coordinate
\* d >= v.
C7_Partition ==
    Built => \A node \in SubNodes(Root) : (IsInterior(node) /\ FiniteNode(node)) =>
        /\ node.split_dimension # None
        /\ \A e \in Range(BodiesUnder(node.left[1])) :
             FLe(get_dim(e, node.split_dimension[1]), node.split_value)
        /\ \A e \in Range(BodiesUnder(node.right[1])) :
             FGe(get_dim(e, node.split_dimension[1]), node.split_value)

\* An interior root over finite bodies, with an interior child, that has a
\* body strictly below the split value on the left and one strictly above it
\* on the right, and a split value that is not zero.
C7_Witness ==
    /\ Built
    /\ IsInterior(Root)
    /\ FiniteNode(Root)
    /\ IsInterior(Root.right[1])
    /\ Root.split_value # F(0)
    /\ \E e \in Range(BodiesUnder(Root.left[1])) :
         FLt(get_dim(e, Root.split_dimension[1]), Root.split_value)
    /\ \E e \in Range(BodiesUnder(Root.right[1])) :
         FGt(get_dim(e, Root.split_dimension[1]), Root.split_value)

\* C8.  Leaf cardinality: every leaf of a tree holds at least one and at most
\* max_pts bodies.
C8_LeafCardinality ==
    Built => \A node \in SubNodes(Root) : IsLeaf(node) =>
        /\ Len(node.points[1]) >= 1
        /\ Len(node.points[1]) <= tree[1].max_pts

\* A tree built with max_pts = 3 from four bodies: two leaves of two bodies.
C8_Witness ==
    /\ Built
    /\ tree[1].max_pts = 3
    /\ IsInterior(Root)
    /\ IsLeaf(Root.left[1])
    /\ Len(Root.left[1].points[1]) = 2
    /\ IsLeaf(Root.right[1])
    /\ Len(Root.right[1].points[1]) = 2

\* C9.  Node shape: every node is either a leaf (points is Some, no left, no
\* right) or an interior node (points is None, split_dimension is Some, left
\* and right are both Some and each holds at least one body).
C9_NodeShape ==
    Built => \A node \in SubNodes(Root) :
        \/ /\ node.points # None
           /\ node.left = None
           /\ node.right = None
        \/ /\ node.points = None
           /\ node.split_dimension # None
           /\ node.left # None
           /\ node.right # None
           /\ BodiesUnder(node.left[1]) # << >>
           /\ BodiesUnder(node.right[1]) # << >>

\* A tree with an interior root whose two children are interior.
C9_Witness ==
    /\ Built
    /\ IsInterior(Root)
    /\ IsInterior(Root.left[1])
    /\ IsInterior(Root.right[1])

\* The axis of greatest span, Z before Y before X when spans tie.
PreferZYX(q) ==
    IF FGe(SpanOf(q, "Z"), SpanOf(q, "Y")) /\ FGe(SpanOf(q, "Z"), SpanOf(q, "X")) THEN "Z"
    ELSE IF FGe(SpanOf(q, "Y"), SpanOf(q, "X")) THEN "Y"
    ELSE "X"

\* The axis whose span is strictly greater than both others, X when none is.
StrictlyGreatestElseX(q) ==
    IF FGt(SpanOf(q, "Z"), SpanOf(q, "Y")) /\ FGt(SpanOf(q, "Z"), SpanOf(q, "X")) THEN "Z"
    ELSE IF FGt(SpanOf(q, "Y"), SpanOf(q, "X")) /\ FGt(SpanOf(q, "Y"), SpanOf(q, "Z")) THEN "Y"
    ELSE "X"

\* Two or three axes share the greatest span of q.
GreatestSpanTied(q) ==
    \E d1, d2 \in Dimensions :
        /\ d1 # d2
        /\ SpanOf(q, d1) = SpanOf(q, d2)
        /\ \A d \in Dimensions : FLe(SpanOf(q, d), SpanOf(q, d1))

---------------------------------------------------------------------------
(***************************************************************************)
(* The force walk and the integration step.                                *)
(***************************************************************************)
Zero3 == << F(0), F(0), F(0) >>

\* The direct pairwise sum of the contributions of the bodies of q on b.
DirectSum(b, q) == LeafAcceleration(b, q, 1, Zero3)

\* C11.  Leaf contribution: when the root of the tree is itself a leaf, the
\* acceleration get_entity_acceleration_from(b, root) of any body b is the
\* sum of the direct pairwise contributions of the bodies of that leaf.
C11_LeafContribution ==
    (Built /\ IsLeaf(Root)) =>
        \A b \in Bodies :
            get_entity_acceleration_from(b, Root) = DirectSum(b, Root.points[1])


\* The thetas of the second specification: 1, the top of the usual range,
\* and 3, wide enough for a body to see its own sibling pair as one point.
WideThetas == { F(1), F(3) }

\* The vector pts with theta as every body's theta.
WithTheta(pts, theta) == [i \in 1..Len(pts) |-> [pts[i] EXCEPT !.theta = theta]]

\* As Init, with one wide theta for the tree and for every body.
InitWide ==
    /\ \E theta \in WideThetas, pts \in BodyVectors :
          /\ input = WithTheta(pts, theta)
          /\ arg_theta = theta
    /\ arg_max_pts \in MaxPtsChoices
    /\ arg_time_step = Fifth
    /\ tree = None
    /\ steps = 0
    /\ workers = 1
    /\ NoMap
    /\ NoCalls
    /\ NoFile

SpecWide == InitWide /\ [][Next]_vars

\* The node as a point: its centre of mass and its total mass.
PointMass(n) ==
    Entity(n.center_of_mass[1], n.center_of_mass[2], n.center_of_mass[3],
           F(0), F(0), F(0), n.total_mass, F(0), n.theta, n.time_step)

\* squared_distance(b, n.center_of_mass) * theta^2 > max_distance(n)^2
OpeningInequality(b, n) ==
    LET d2 == FAdd(FAdd(Sq(FSub(b.x, n.center_of_mass[1])),
                        Sq(FSub(b.y, n.center_of_mass[2]))),
                   Sq(FSub(b.z, n.center_of_mass[3])))
    IN  FGt(FMul(d2, Sq(b.theta)), Sq(max_distance(n)))

\* What the opening rule makes of interior node n for body b.
OpeningRule(b, n) ==
    IF OpeningInequality(b, n)
    THEN get_gravitational_acceleration(b, PointMass(n))
    ELSE get_entity_acceleration_from(b, n)

\* The interior nodes below the root.
InteriorBelowRoot == { n \in SubNodes(Root) \ {Root} : IsInterior(n) }

RECURSIVE PlainWalk(_, _)
RECURSIVE PlainChild(_, _, _)
PlainChild(b, acceleration, child) ==
    IF child = None THEN acceleration
    ELSE IF child[1].points # None
         THEN LeafAcceleration(b, child[1].points[1], 1, acceleration)
    ELSE IF theta_exceeded(b, child[1])
         THEN VAdd(acceleration, get_gravitational_acceleration(b, as_entity(child[1])))
    ELSE VAdd(acceleration, PlainWalk(b, child[1]))

PlainWalk(b, node) == PlainChild(b, PlainChild(b, Zero3, node.left), node.right)

\* C13.  No doubling: for every body b, get_entity_acceleration_from(b, root)
\* is the plain sum of the contributions collected from the left and the
\* right subtree of the root, each counted once whatever its depth.
C13_NoDoubling ==
    Built => \A b \in Bodies :
        get_entity_acceleration_from(b, Root) = PlainWalk(b, Root)


\* The greatest mass of the two-body vectors.
MaxMass == 5

\* Two bodies of mass m at rest at (+1,0,0) and (-1,0,0).
TwoBody(m, dt) ==
    << Entity(F(1), F(0), F(0), F(0), F(0), F(0), F(m), F(1), Fifth, dt),
       Entity(F(-1), F(0), F(0), F(0), F(0), F(0), F(m), F(1), Fifth, dt) >>

Reversed(q) == [i \in 1..Len(q) |-> q[Len(q) + 1 - i]]

\* A caller that builds the tree of such a pair, in either order, with
\* max_pts 1 (one body per leaf), 2 or 3 (both in the root leaf).
InitTwoBody ==
    /\ \E m \in 1..MaxMass, dt \in {Fifth, F(1)} :
          /\ input \in { TwoBody(m, dt), Reversed(TwoBody(m, dt)) }
          /\ arg_time_step = dt
    /\ arg_theta = Fifth
    /\ arg_max_pts \in 1..3
    /\ tree = None
    /\ steps = 0
    /\ workers = 1
    /\ NoMap
    /\ NoCalls
    /\ NoFile

SpecTwoBody == InitTwoBody /\ [][Next]_vars

\* C14.  Two-body sanity: one time_step of the tree of two equal-mass bodies
\* at rest at (+1,0,0) and (-1,0,0) leaves two bodies whose velocities are
\* equal in magnitude, opposite in sign and non-zero, the body that started
\* at +1 with vx < 0 and the body that started at -1 with vx > 0, vy = vz = 0.
C14_TwoBodySanity ==
    (Built /\ steps = 1) =>
        LET q == as_vec(tree[1])
        IN  /\ Len(q) = 2
            /\ \E i, j \in 1..2 :
                  /\ i # j
                  /\ q[i].x = FAdd(F(1), FMul(q[i].vx, q[i].time_step))
                  /\ q[j].x = FAdd(F(-1), FMul(q[j].vx, q[j].time_step))
                  /\ FLt(q[i].vx, F(0))
                  /\ FGt(q[j].vx, F(0))
                  /\ q[i].vx = FNeg(q[j].vx)
                  /\ q[i].vy = F(0) /\ q[i].vz = F(0)
                  /\ q[j].vy = F(0) /\ q[j].vz = F(0)


\* Position and velocity of e are numbers: neither NaN nor infinite.
DefinedMotion(e) ==
    /\ IsFinite(e.x) /\ IsFinite(e.y) /\ IsFinite(e.z)
    /\ IsFinite(e.vx) /\ IsFinite(e.vy) /\ IsFinite(e.vz)

\* C15.  Zero-distance handling: no acceleration divides by a zero distance,
\* so after any number of steps the position and the velocity of every body
\* of the tree are defined.
C15_ZeroDistance ==
    Built => \A e \in Range(as_vec(tree[1])) : DefinedMotion(e)


\* Position and velocity of e.
Motion(e) == << e.x, e.y, e.z, e.vx, e.vy, e.vz >>

\* One semi-implicit Euler step of e under acceleration a: the velocity
\* first, then the position from the new velocity.
EulerMotion(e, a) ==
    LET vx == FAdd(e.vx, FMul(a[1], e.time_step))
        vy == FAdd(e.vy, FMul(a[2], e.time_step))
        vz == FAdd(e.vz, FMul(a[3], e.time_step))
    IN  << FAdd(e.x, FMul(vx, e.time_step)), FAdd(e.y, FMul(vy, e.time_step)),
           FAdd(e.z, FMul(vz, e.time_step)), vx, vy, vz >>

\* The sequence of f(q[i]) for a sequence q of bodies, f being Motion.
Motions(q) == [i \in 1..Len(q) |-> Motion(q[i])]

\* C16.  Semi-implicit Euler: the bodies a time_step leaves in the new tree
\* are those of the old tree, each with v' = v + a * dt on each axis, a being
\* get_entity_acceleration_from(body, old root), and r' = r + v' * dt from
\* the updated velocity.
C16_SemiImplicitEuler ==
    [][(tree # None /\ tree' # None) =>
          LET V == traverse_tree_helper(tree[1].root)
          IN  IsPermutationOf(
                  Motions(as_vec(tree'[1])),
                  [i \in 1..Len(V) |->
                      EulerMotion(V[i], get_entity_acceleration_from(V[i], tree[1].root))])]_vars

\* A stepped tree holding a body whose motion is defined and which a non-zero
\* acceleration has set moving along y, its position advanced with it.
C16_Witness ==
    /\ Built
    /\ steps = 1
    /\ \E e \in Range(as_vec(tree[1])) :
          /\ DefinedMotion(e)
          /\ e.vy # F(0)
          /\ \E b \in Bodies : e.y = FAdd(b.y, FMul(e.vy, e.time_step))


---------------------------------------------------------------------------
(***************************************************************************)
(* GravTree::time_step with its parallel map taken apart: the traversal,   *)
(* one task per body run by a pool of workers, and the collect and rebuild.*)
(***************************************************************************)
\* The longest vector of the callers of the parallel specification.
MaxParBodies == 2

\* The largest thread pool.
MaxWorkers == 2

ParBodyVectors == UNION { SeqsOfLen(Bodies, n) : n \in 1..MaxParBodies }

InitPar ==
    /\ input \in ParBodyVectors
    /\ arg_theta = Fifth
    /\ arg_max_pts \in MaxPtsChoices
    /\ arg_time_step = Fifth
    /\ tree = None
    /\ steps = 0
    /\ workers \in 1..MaxWorkers
    /\ NoMap
    /\ NoCalls
    /\ NoFile

\* let post_gravity_entity_vec = self.root.traverse_tree_helper();
\* post_gravity_entity_vec.par_iter(): one task per index, none begun.
MapBegin ==
    /\ tree # None
    /\ pc = "idle"
    /\ steps < MaxSteps
    /\ pc' = "map"
    /\ map_input' = traverse_tree_helper(tree[1].root)
    /\ map_task' = [i \in 1..Len(map_input') |-> "todo"]
    /\ map_output' = [i \in 1..Len(map_input') |-> None]
    /\ UNCHANGED << input, arg_theta, arg_max_pts, arg_time_step, tree, steps, workers,
                    file_vars, calls >>

\* The tasks a worker is running.
Running == { i \in 1..Len(map_task) : map_task[i] = "run" }

\* A free worker takes the task of index i.
TaskStart(i) ==
    /\ pc = "map"
    /\ map_task[i] = "todo"
    /\ Cardinality(Running) < workers
    /\ map_task' = [map_task EXCEPT ![i] = "run"]
    /\ UNCHANGED << input, arg_theta, arg_max_pts, arg_time_step, tree, steps,
                    workers, pc, map_input, map_output, file_vars, calls >>

\* The task of index i ends, its result pushed behind the results that are
\* already there: the slots in the order of completion.
TaskFinish_push(i) ==
    /\ pc = "map"
    /\ map_task[i] = "run"
    /\ LET free == CHOOSE k \in 1..Len(map_output) :
                       /\ map_output[k] = None
                       /\ \A l \in 1..(k - 1) : map_output[l] # None
       IN  map_output' =
               [map_output EXCEPT ![free] = Some(apply_gravity_from(map_input[i], tree[1].root))]
    /\ map_task' = [map_task EXCEPT ![i] = "done"]
    /\ UNCHANGED << input, arg_theta, arg_max_pts, arg_time_step, tree, steps,
                    workers, pc, map_input, file_vars, calls >>

\* The task of index i ends: |x| x.apply_gravity_from(&self.root) of element
\* i, which the indexed collect places in slot i.
TaskFinish(i) ==
    /\ pc = "map"
    /\ map_task[i] = "run"
    /\ map_output' =
           [map_output EXCEPT ![i] = Some(apply_gravity_from(map_input[i], tree[1].root))]
    /\ map_task' = [map_task EXCEPT ![i] = "done"]
    /\ UNCHANGED << input, arg_theta, arg_max_pts, arg_time_step, tree, steps,
                    workers, pc, map_input, file_vars, calls >>

\* Every task has ended: collect() returns the vector and
\* GravTree::new(&mut it, self.theta, self.max_pts, self.time_step) is the
\* tree time_step returns.
MapEnd ==
    /\ pc = "map"
    /\ \A i \in 1..Len(map_task) : map_task[i] = "done"
    /\ \E t \in GravTree_new([i \in 1..Len(map_output) |-> map_output[i][1]],
                             tree[1].theta, tree[1].max_pts, tree[1].time_step) :
          tree' = Some(t)
    /\ steps' = steps + 1
    /\ pc' = "idle"
    /\ map_input' = << >>
    /\ map_task' = << >>
    /\ map_output' = << >>
    /\ UNCHANGED << input, arg_theta, arg_max_pts, arg_time_step, workers, file_vars, calls >>

NextPar ==
    \/ New
    \/ MapBegin
    \/ \E i \in 1..Len(map_task) : TaskStart(i)
    \/ \E i \in 1..Len(map_task) : TaskFinish(i)
    \/ MapEnd

SpecPar == InitPar /\ [][NextPar]_vars


---------------------------------------------------------------------------
\* C17.  Frame of apply_gravity_from: the body a task of the map returns has
\* the mass, radius, theta and time_step of the body it was called on, and
\* the call leaves that body (the element of the vector) and the node passed
\* in (the root of the tree) as they were.
C17_ApplyGravityFrame ==
    [][\A i \in 1..Len(map_task) :
          (map_task[i] = "run" /\ pc' = "map" /\ map_task'[i] = "done") =>
              /\ map_output'[i] # None
              /\ map_output'[i][1].mass = map_input[i].mass
              /\ map_output'[i][1].radius = map_input[i].radius
              /\ map_output'[i][1].theta = map_input[i].theta
              /\ map_output'[i][1].time_step = map_input[i].time_step
              /\ map_input' = map_input
              /\ tree' = tree]_vars

\* A task has returned a body that has moved to a defined place and whose
\* other fields are those of the body it was called on.
C17_Witness ==
    /\ pc = "map"
    /\ \E i \in 1..Len(map_task) :
          /\ map_task[i] = "done"
          /\ map_output[i] # None
          /\ DefinedMotion(map_output[i][1])
          /\ Motion(map_output[i][1]) # Motion(map_input[i])
          /\ map_output[i][1].mass = map_input[i].mass
          /\ map_output[i][1].radius = map_input[i].radius


---------------------------------------------------------------------------
\* C18.  Parameter preservation across steps: after GravTree::new(pts, theta,
\* max_pts, dt) and any number of time_step calls, the theta, max_pts and
\* time_step of the current tree are theta, max_pts and dt, and every node
\* of the tree carries that theta and that time_step.
C18_ParameterPreservation ==
    Built =>
        /\ tree[1].theta = arg_theta
        /\ tree[1].max_pts = arg_max_pts
        /\ tree[1].time_step = arg_time_step
        /\ \A node \in SubNodes(Root) :
              node.theta = arg_theta /\ node.time_step = arg_time_step

\* A tree with an interior root that two steps have rebuilt, its theta
\* differing from its time step.
C18_Witness ==
    /\ Built
    /\ steps >= 2
    /\ IsInterior(Root)
    /\ arg_theta # arg_time_step
    /\ tree[1].theta = arg_theta
    /\ Root.left[1].time_step = arg_time_step


---------------------------------------------------------------------------
\* C19.  Parallel determinism of a step: whatever the interleaving of the
\* tasks and the number of workers, a task leaves the tree and the vector as
\* they were and changes no slot but its own, and when the map ends slot i
\* holds apply_gravity_from(V[i], old root), V being the traversal of the old
\* tree, so that the tree returned is one the step taken serially returns.
C19_ParallelDeterminism ==
    [][/\ (pc = "map" /\ pc' = "map") =>
              /\ tree' = tree
              /\ map_input' = map_input
              /\ \A i \in 1..Len(map_output) :
                    map_output'[i] # map_output[i] =>
                        map_task[i] = "run" /\ map_task'[i] = "done"
       /\ (pc = "map" /\ pc' = "idle") =>
              LET V == traverse_tree_helper(tree[1].root)
              IN  /\ Len(map_output) = Len(V)
                  /\ \A i \in 1..Len(V) :
                        map_output[i] = Some(apply_gravity_from(V[i], tree[1].root))
                  /\ tree'[1] \in time_step(tree[1])]_vars

\* Two workers, and the task of a later index has ended while the task of an
\* earlier index, on a different body, is still running.
C19_Witness ==
    /\ pc = "map"
    /\ workers >= 2
    /\ \E i, j \in 1..Len(map_task) :
          /\ i < j
          /\ map_task[i] = "run"
          /\ map_output[i] = None
          /\ map_task[j] = "done"
          /\ map_output[j] # None
          /\ map_input[i] # map_input[j]


---------------------------------------------------------------------------
(***************************************************************************)
(* Data files: one body per line, "x y z vx vy vz mass radius".  A text is *)
(* a sequence of characters, a character a string of length one.          *)
(***************************************************************************)
Digits == << "0", "1", "2", "3", "4", "5", "6", "7", "8", "9" >>

IsDigit(c) == \E k \in 1..10 : Digits[k] = c

DigitValue(c) == (CHOOSE k \in 1..10 : Digits[k] = c) - 1

\* The decimal digits of a natural number.
RECURSIVE NatDigits(_)
NatDigits(n) ==
    IF n < 10 THEN << Digits[n + 1] >>
    ELSE Append(NatDigits(n \div 10), Digits[(n % 10) + 1])

\* The decimal digits of r / d, 0 <= r < d, behind the point.  Every field of
\* a body is an f64, whose decimal expansion ends.
RECURSIVE FractionDigits(_, _)
FractionDigits(r, d) ==
    IF r = 0 THEN << >>
    ELSE << Digits[((r * 10) \div d) + 1] >> \o FractionDigits((r * 10) % d, d)

\* fmt_f64 without the minus sign of a negative number.
fmt_f64_unsigned(a) ==
    IF IsNaN(a) THEN << "N", "a", "N" >>
    ELSE IF IsInf(a) THEN << "i", "n", "f" >>
    ELSE NatDigits(Abs(a.n) \div a.d)
         \o (IF Abs(a.n) % a.d = 0 THEN << >>
             ELSE << "." >> \o FractionDigits(Abs(a.n) % a.d, a.d))

\* format!("{}", a) of an f64: the shortest decimal text that reads back as a.
fmt_f64(a) ==
    IF IsNaN(a) THEN << "N", "a", "N" >>
    ELSE IF IsInf(a) THEN (IF a.n < 0 THEN << "-" >> ELSE << >>) \o << "i", "n", "f" >>
    ELSE (IF a.n < 0 THEN << "-" >> ELSE << >>)
         \o NatDigits(Abs(a.n) \div a.d)
         \o (IF Abs(a.n) % a.d = 0 THEN << >>
             ELSE << "." >> \o FractionDigits(Abs(a.n) % a.d, a.d))

RECURSIVE Pow10(_)
Pow10(k) == IF k = 0 THEN 1 ELSE 10 * Pow10(k - 1)

\* The number a sequence of digits spells.
RECURSIVE DigitsValue(_)
DigitsValue(q) ==
    IF q = << >> THEN 0
    ELSE DigitsValue(SubSeq(q, 1, Len(q) - 1)) * 10 + DigitValue(q[Len(q)])

\* str.parse::<f64>(): Some(value), or None where parse returns Err.  Texts
\* with an exponent are outside the characters of the model.
parse_f64(str) ==
    IF str = << "N", "a", "N" >> THEN Some(NaN)
    ELSE IF str \in { << "i", "n", "f" >>, << "+", "i", "n", "f" >> } THEN Some(Inf(1))
    ELSE IF str = << "-", "i", "n", "f" >> THEN Some(Inf(-1))
    ELSE LET signed == str # << >> /\ str[1] \in { "-", "+" }
             sign == IF str # << >> /\ str[1] = "-" THEN -1 ELSE 1
             body == IF signed THEN Tail(str) ELSE str
             dots == { k \in 1..Len(body) : body[k] = "." }
             digits == SelectSeq(body, IsDigit)
         IN  IF \/ digits = << >>
                \/ Cardinality(dots) > 1
                \/ \E k \in 1..Len(body) : ~IsDigit(body[k]) /\ body[k] # "."
             THEN None
             ELSE LET behind == IF dots = {} THEN 0
                                ELSE Len(body) - (CHOOSE k \in dots : TRUE)
                  IN  Some(Frac(sign * DigitsValue(digits), Pow10(behind)))

\* Entity::as_string.
as_string(self) ==
    fmt_f64(self.x) \o << " " >> \o fmt_f64(self.y) \o << " " >> \o fmt_f64(self.z)
    \o << " " >> \o fmt_f64(self.vx) \o << " " >> \o fmt_f64(self.vy)
    \o << " " >> \o fmt_f64(self.vz) \o << " " >> \o fmt_f64(self.mass)
    \o << " " >> \o fmt_f64(self.radius)

\* The loop of write_data_file: to_write.pop() takes the bodies from the end
\* of the vector, each behind a newline but the first.
RECURSIVE PopAndJoin(_)
PopAndJoin(to_write) ==
    IF Len(to_write) = 1 THEN as_string(to_write[1])
    ELSE as_string(to_write[Len(to_write)]) \o << "\n" >>
         \o PopAndJoin(SubSeq(to_write, 1, Len(to_write) - 1))

\* GravTree::write_data_file: the text written.
write_data_file(self) == PopAndJoin(as_vec(self)) \o << "\n" >>

\* The eight strings of a line as an Entity of time step dt: Some(entity),
\* or None where one of the parse().unwrap() panics.
ParseLine(tmp, theta, dt) ==
    IF \E k \in 1..8 : parse_f64(tmp[k]) = None THEN None
    ELSE Some(Entity(parse_f64(tmp[1])[1], parse_f64(tmp[2])[1], parse_f64(tmp[3])[1],
                     parse_f64(tmp[4])[1], parse_f64(tmp[5])[1], parse_f64(tmp[6])[1],
                     parse_f64(tmp[7])[1], parse_f64(tmp[8])[1], theta, dt))

\* The loop over s.chars() of from_data_file from character i on: tag "Ok"
\* with the entities read, "Err" at a line that has not eight strings, or
\* "Panic" at a string that is no number.
RECURSIVE ReadChars(_, _, _, _, _, _, _)
ReadChars(s, i, tmp_str, tmp, entities, theta, dt) ==
    IF i > Len(s) THEN [tag |-> "Ok", entities |-> entities]
    ELSE IF s[i] # "\n" /\ s[i] # " "
         THEN ReadChars(s, i + 1, Append(tmp_str, s[i]), tmp, entities, theta, dt)
    ELSE IF s[i] = " "
         THEN ReadChars(s, i + 1, << >>, Append(tmp, tmp_str), entities, theta, dt)
    ELSE IF Len(Append(tmp, tmp_str)) = 8
         THEN IF ParseLine(Append(tmp, tmp_str), theta, dt) = None
              THEN [tag |-> "Panic", entities |-> entities]
              ELSE ReadChars(s, i + 1, << >>, << >>,
                             Append(entities,
                                    ParseLine(Append(tmp, tmp_str), theta, dt)[1]),
                             theta, dt)
    ELSE [tag |-> "Err", entities |-> entities]

\* GravTree::from_data_file on the text s: every result it can return, the
\* tree being Some only under tag "Ok".  With no body read the build is
\* handed an empty slice, of which max_min_xyz has no element to refer to:
\* the call aborts.
from_data_file(s, theta, max_pts, dt) ==
    LET read == ReadChars(s, 1, << >>, << >>, << >>, theta, dt)
    IN  IF read.tag = "Ok" /\ read.entities # << >>
        THEN { [tag |-> "Ok", tree |-> Some(t)] :
                 t \in GravTree_new(read.entities, theta, max_pts, dt) }
        ELSE IF read.tag = "Ok"
        THEN { [tag |-> "Panic", tree |-> None] }
        ELSE { [tag |-> read.tag, tree |-> None] }

\* A caller that builds a tree of one or two of Bodies, or of a pair of
\* bodies at x = +1 and x = -1, steps it, writes it and reads it back.
InitFile ==
    /\ input \in ParBodyVectors \cup { TwoBody(m, Fifth) : m \in 1..MaxMass }
    /\ arg_theta = Fifth
    /\ arg_max_pts \in MaxPtsChoices
    /\ arg_time_step = Fifth
    /\ tree = None
    /\ steps = 0
    /\ workers = 1
    /\ NoMap
    /\ NoCalls
    /\ NoFile

\* GravTree::write_data_file(tree, path): the tree is moved into the call.
WriteDataFile ==
    /\ tree # None
    /\ pc = "idle"
    /\ file' = Some(write_data_file(tree[1]))
    /\ written' = Some(as_vec(tree[1]))
    /\ result' = None
    /\ tree' = None
    /\ UNCHANGED << input, arg_theta, arg_max_pts, arg_time_step, steps, map_vars, calls >>

\* tree = GravTree::from_data_file(path, theta, max_pts, time_step)
ReadDataFile ==
    /\ tree = None
    /\ file # None
    /\ result = None
    /\ \E r \in from_data_file(file[1], arg_theta, arg_max_pts, arg_time_step) :
          /\ result' = Some(r.tag)
          /\ tree' = r.tree
    /\ UNCHANGED << input, arg_theta, arg_max_pts, arg_time_step, steps, map_vars,
                    file, written, calls >>

NextFile == New \/ TimeStep \/ WriteDataFile \/ ReadDataFile

SpecFile == InitFile /\ [][NextFile]_vars

\* The record of e in a data file.
RecordOf(e) == << e.x, e.y, e.z, e.vx, e.vy, e.vz, e.mass, e.radius >>

RecordsOf(q) == [i \in 1..Len(q) |-> RecordOf(q[i])]

\* C20.  File round-trip: from_data_file on the text write_data_file wrote of
\* a tree of at least one body, with the same theta, max_pts and time_step,
\* returns Ok with a tree whose as_vec() has the records (x, y, z, vx, vy,
\* vz, mass, radius) of the as_vec() of the written tree, as a multiset; the
\* counts are equal.
C20_FileRoundTrip ==
    [][(result = None /\ result' # None) =>
          /\ result' = Some("Ok")
          /\ tree' # None
          /\ Len(as_vec(tree'[1])) = Len(written[1])
          /\ IsPermutationOf(RecordsOf(as_vec(tree'[1])), RecordsOf(written[1]))]_vars

\* A tree read back from the file of a stepped tree of two different bodies,
\* one of them at a place that is no whole number.
C20_Witness ==
    /\ result = Some("Ok")
    /\ Built
    /\ steps >= 1
    /\ written # None
    /\ IsPermutationOf(RecordsOf(as_vec(tree[1])), RecordsOf(written[1]))
    /\ Len(written[1]) = 2
    /\ written[1][1] # written[1][2]
    /\ \E e \in Range(as_vec(tree[1])) : IsFinite(e.x) /\ e.x.d > 1


---------------------------------------------------------------------------
(***************************************************************************)
(* Reading texts that no write_data_file wrote.                            *)
(***************************************************************************)
\* The most lines of a text handed to the reader.
MaxLines == 2

\* s with the character at place k (1..Len(s) + 1) preceded by c.
InsertAt(s, k, c) == SubSeq(s, 1, k - 1) \o << c >> \o SubSeq(s, k, Len(s))

\* The place of the first space of s.
FirstSpace(s) == CHOOSE k \in 1..Len(s) : s[k] = " " /\ \A l \in 1..(k - 1) : s[l] # " "

GoodLine == as_string(Body(1, 2, 3, 0, 2, 1))

OtherGoodLine == as_string(Body(0, 0, 2, 0, 3, 0))

\* The lines a text is made of: two records as as_string writes them, a
\* record short of a field, one with a field too many, one with a field that
\* is no number, one with two spaces between two fields, one behind a space,
\* one before a space, and a line of nothing.
Lines ==
    { GoodLine, OtherGoodLine,
      SubSeq(GoodLine, 1, Len(GoodLine) - 2),
      GoodLine \o << " ", "7" >>,
      [GoodLine EXCEPT ![1] = "x"],
      InsertAt(GoodLine, FirstSpace(GoodLine), " "),
      << " " >> \o GoodLine,
      GoodLine \o << " " >>,
      << >> }

\* The lines of q, each behind a newline but the first.
RECURSIVE JoinLines(_)
JoinLines(q) ==
    IF Len(q) = 1 THEN q[1]
    ELSE JoinLines(SubSeq(q, 1, Len(q) - 1)) \o << "\n" >> \o q[Len(q)]

\* The texts: one to MaxLines lines, the last with or without its newline.
InputTexts ==
    LET joined == { JoinLines(q) : q \in UNION { SeqsOfLen(Lines, n) : n \in 1..MaxLines } }
    IN  joined \cup { Append(t, "\n") : t \in joined }

\* A caller that reads a text from disk and steps or writes the tree read.
InitRead ==
    /\ input = << >>
    /\ arg_theta = Fifth
    /\ arg_max_pts \in MaxPtsChoices
    /\ arg_time_step = Fifth
    /\ tree = None
    /\ steps = 0
    /\ workers = 1
    /\ NoMap
    /\ NoCalls
    /\ file \in { Some(t) : t \in InputTexts }
    /\ written = None
    /\ result = None

NextRead == ReadDataFile \/ TimeStep \/ WriteDataFile

SpecRead == InitRead /\ [][NextRead]_vars

\* The pieces of s between the characters sep, from place i on, cur being
\* the piece begun.
RECURSIVE Pieces(_, _, _, _)
Pieces(s, i, cur, sep) ==
    IF i > Len(s) THEN << cur >>
    ELSE IF s[i] = sep THEN << cur >> \o Pieces(s, i + 1, << >>, sep)
    ELSE Pieces(s, i + 1, Append(cur, s[i]), sep)

NonEmpty(q) == q # << >>

\* The fields of a record: its runs of characters that are no space.
FieldsOf(record) == SelectSeq(Pieces(record, 1, << >>, " "), NonEmpty)

\* The records of a text: its lines, and what follows the last newline when
\* that is not nothing.
RecordsOfText(text) ==
    LET pieces == Pieces(text, 1, << >>, "\n")
    IN  IF pieces[Len(pieces)] = << >> THEN SubSeq(pieces, 1, Len(pieces) - 1)
        ELSE pieces

\* Eight fields, each a number.
WellFormedRecord(record) ==
    /\ Len(FieldsOf(record)) = 8
    /\ \A k \in 1..8 : parse_f64(FieldsOf(record)[k]) # None

Malformed(text) ==
    \E k \in 1..Len(RecordsOfText(text)) : ~WellFormedRecord(RecordsOfText(text)[k])

\* C21.  Reader rejection: from_data_file on a text with a record, ended by
\* a newline or the last one without, that has not exactly eight fields or
\* has a field that is no number returns Err: no panic, no Ok.
C21_ReaderRejection ==
    (result # None /\ Malformed(file[1])) => (result = Some("Err") /\ tree = None)


\* The record (x, y, z, vx, vy, vz, mass, radius) the eight fields of a
\* well-formed record spell.
SpelledRecord(record) == [k \in 1..8 |-> parse_f64(FieldsOf(record)[k])[1]]

SpelledRecords(text) ==
    [k \in 1..Len(RecordsOfText(text)) |-> SpelledRecord(RecordsOfText(text)[k])]

\* C22.  Reader whitespace tolerance: from_data_file on a text whose every
\* record has eight numeric fields, one or more spaces between them and
\* possibly spaces before the first and behind the last, returns Ok with a
\* tree of exactly the bodies those fields spell, as the text with single
\* spaces does.
C22_WhitespaceTolerance ==
    [][(result = None /\ result' # None /\ ~Malformed(file[1])) =>
          /\ result' = Some("Ok")
          /\ tree' # None
          /\ IsPermutationOf(RecordsOf(as_vec(tree'[1])), SpelledRecords(file[1]))]_vars


\* ---------------------------------------------------------------------------
\* Balance of the tree (lib.rs test_tree and go_to_edges)
\* ---------------------------------------------------------------------------

\* The number of times n is halved, rounding down, until it is at most max_pts.
RECURSIVE FloorHalvings(_, _)
FloorHalvings(n, max_pts) ==
    IF n <= max_pts THEN 0 ELSE 1 + FloorHalvings(n \div 2, max_pts)

\* The number of times n is halved, rounding up, until it is at most max_pts.
RECURSIVE CeilHalvings(_, _)
CeilHalvings(n, max_pts) ==
    IF n <= max_pts THEN 0 ELSE 1 + CeilHalvings(n - (n \div 2), max_pts)

\* The number of nodes met from node downward that still have a left child.
RECURSIVE LeftEdge(_)
LeftEdge(node) ==
    IF node.left # None THEN 1 + LeftEdge(node.left[1]) ELSE 0

\* The number of nodes met from node downward that still have a right child.
RECURSIVE RightEdge(_)
RightEdge(node) ==
    IF node.right # None THEN 1 + RightEdge(node.right[1]) ELSE 0

\* go_to_edges: both walks start at the root's left child; the pair of counts
\* the test compares with left_nodes and right_nodes.
go_to_edges(grav_tree) ==
    LET node == grav_tree.root.left[1]
        node2 == node
    IN  <<LeftEdge(node), RightEdge(node2)>>

\* The bodies of test_tree and its leaf capacity.
TestTreeBodies == 100000
TestTreeMaxPts == 3

\* C23: every interior node built over n bodies has floor(n/2) of them under
\* its left child and ceil(n/2) under its right child; the left edge of the
\* tree reaches a leaf after as many hops as floor-halvings bring n to at most
\* max_pts, the right edge after as many as ceil-halvings do; go_to_edges
\* counts these from the root's left child, and for 100000 bodies with
\* max_pts 3 the counts are 14 and 15.
C23_TreeBalance ==
    Built =>
      LET n == Len(BodiesUnder(Root))
      IN  /\ \A node \in SubNodes(Root) :
                IsInterior(node) =>
                  LET m == Len(BodiesUnder(node))
                  IN  /\ Len(BodiesUnder(node.left[1])) = m \div 2
                      /\ Len(BodiesUnder(node.right[1])) = m - (m \div 2)
          /\ LeftEdge(Root) = FloorHalvings(n, arg_max_pts)
          /\ RightEdge(Root) = CeilHalvings(n, arg_max_pts)
          /\ IsInterior(Root) =>
                go_to_edges(tree[1]) = <<FloorHalvings(n \div 2, arg_max_pts),
                                         CeilHalvings(n \div 2, arg_max_pts)>>
          /\ FloorHalvings(TestTreeBodies \div 2, TestTreeMaxPts) = 14
          /\ CeilHalvings(TestTreeBodies \div 2, TestTreeMaxPts) = 15

\* An odd number of bodies split down to single-body leaves: the right edge is
\* one hop longer than the left one.
C23_Witness ==
    /\ Built
    /\ Len(BodiesUnder(Root)) = 3
    /\ arg_max_pts = 1
    /\ LeftEdge(Root) = 1
    /\ RightEdge(Root) = 2


\* ---------------------------------------------------------------------------
\* The stored number of bodies
\* ---------------------------------------------------------------------------

\* The length of the vector the tree of the next state was built from: the
\* vector the map of time_step collected when a tree was stepped, the bodies
\* from_data_file pushed when a file was read, the argument of GravTree::new
\* otherwise.
BuiltFromLen ==
    IF tree # None
    THEN Len(post_gravity_entity_vec(tree[1]))
    ELSE IF result' # result
    THEN Len(ReadChars(file[1], 1, << >>, << >>, << >>, arg_theta, arg_time_step).entities)
    ELSE Len(input)

\* C24: whenever GravTree::new, from_data_file or time_step returns a tree,
\* its get_number_of_entities() equals the length of its as_vec() and the
\* length of the body vector it was built from.
C24_StoredCount ==
    [][tree' # None =>
          /\ get_number_of_entities(tree'[1]) = Len(as_vec(tree'[1]))
          /\ get_number_of_entities(tree'[1]) = BuiltFromLen]_vars

\* A tree read from a file and stepped, whose two bodies sit under an
\* interior root.
C24_Witness ==
    /\ Built
    /\ result = Some("Ok")
    /\ steps > 0
    /\ IsInterior(Root)
    /\ get_number_of_entities(tree[1]) = 2
    /\ Len(as_vec(tree[1])) = 2


\* ---------------------------------------------------------------------------
\* What the force walk reaches
\* ---------------------------------------------------------------------------

\* The branches the two match blocks of get_entity_acceleration_from take, in
\* the order they are taken: a leaf child is summed body by body ("leaf"), an
\* interior child that is far enough is taken as one point ("point"), any
\* other interior child is walked, one call deeper.
RECURSIVE WalkVisits(_, _, _)
ChildVisits(self, child, depth) ==
    IF child = None THEN << >>
    ELSE IF child[1].points # None
         THEN << [kind |-> "leaf", node |-> child[1], depth |-> depth] >>
    ELSE IF theta_exceeded(self, child[1])
         THEN << [kind |-> "point", node |-> child[1], depth |-> depth] >>
    ELSE WalkVisits(self, child[1], depth + 1)

WalkVisits(self, node, depth) ==
    ChildVisits(self, node.left, depth) \o ChildVisits(self, node.right, depth)

\* The bodies the visits account for: those of the leaves summed and those
\* under the nodes taken as points.
RECURSIVE VisitedBodies(_)
VisitedBodies(visits) ==
    IF visits = << >> THEN << >>
    ELSE BodiesUnder(Head(visits).node) \o VisitedBodies(Tail(visits))

\* What one visit adds to the acceleration of the call it happens in.
VisitAcceleration(self, visit) ==
    IF visit.kind = "leaf"
    THEN LeafAcceleration(self, visit.node.points[1], 1, Zero3)
    ELSE get_gravitational_acceleration(self, as_entity(visit.node))

RECURSIVE Pow2(_)
Pow2(k) == IF k = 0 THEN 1 ELSE 2 * Pow2(k - 1)

\* The sum of what the visits add, each as often as the calls it passes
\* through on the way back double it.
RECURSIVE VisitsSum(_, _, _)
VisitsSum(self, visits, acceleration) ==
    IF visits = << >> THEN acceleration
    ELSE LET a == VisitAcceleration(self, Head(visits))
             w == F(Pow2(Head(visits).depth))
         IN  VisitsSum(self, Tail(visits),
                       VAdd(acceleration, <<FMul(w, a[1]), FMul(w, a[2]), FMul(w, a[3])>>))

\* The target bodies of a walk: the bodies of the tree and the bodies of the
\* universe with the theta of the tree.
WalkTargets ==
    Range(BodiesUnder(Root)) \cup { [b EXCEPT !.theta = arg_theta] : b \in Bodies }

NewFrame(pts, theta, max_pts, dt) ==
    [op |-> "new", pts |-> pts, theta |-> theta, max_pts |-> max_pts, time_step |-> dt]

CallFrame(pts) == [op |-> "call", pts |-> pts]

JoinFrame(split_dimension, split_value) ==
    [op |-> "join", split_dimension |-> split_dimension, split_value |-> split_value]

NodeFrame(node) == [op |-> "node", node |-> node]

\* The frame worked on next: the first one that is not a returned node.
Pending == CHOOSE i \in 1..Len(calls) :
              /\ calls[i].op # "node"
              /\ \A j \in 1..(i - 1) : calls[j].op = "node"

\* The frames i..j replaced by the frames new.
Replace(s, i, j, new) == SubSeq(s, 1, i - 1) \o new \o SubSeq(s, j + 1, Len(s))

\* The longest vector of a build followed call by call.
MaxBuildBodies == 3

BuildBodyVectors == UNION { SeqsOfLen(Bodies, n) : n \in 1..MaxBuildBodies }

\* As Init: a non-empty vector and max_pts of at least one.
InitBuild ==
    /\ input \in BuildBodyVectors
    /\ arg_theta = Fifth
    /\ arg_max_pts \in MaxPtsChoices
    /\ arg_time_step = Fifth
    /\ tree = None
    /\ steps = 0
    /\ workers = 1
    /\ NoMap
    /\ NoFile
    /\ NoCalls

\* GravTree::new is entered: the first call of Node::new_root_node is the one
\* on the whole vector.
NewBegin ==
    /\ tree = None
    /\ pc = "idle"
    /\ pc' = "new"
    /\ calls' = << CallFrame(input),
                   NewFrame(input, arg_theta, arg_max_pts, arg_time_step) >>
    /\ UNCHANGED << input, arg_theta, arg_max_pts, arg_time_step, tree, steps,
                    workers, map_input, map_task, map_output, file_vars >>

\* time_step is entered: the traversal and the map are done and GravTree::new
\* is called on the vector collected, with the parameters of the tree.  The
\* first time_step of a tree is followed; the vector it collects holds moved
\* bodies, and undefined ones where the tree had an interior root.
TimeStepBegin ==
    /\ tree # None
    /\ pc = "idle"
    /\ steps = 0
    /\ pc' = "time_step"
    /\ \E v \in { post_gravity_entity_vec(tree[1]) } :
          calls' = << CallFrame(v),
                      NewFrame(v, tree[1].theta, tree[1].max_pts, tree[1].time_step) >>
    /\ UNCHANGED << input, arg_theta, arg_max_pts, arg_time_step, tree, steps,
                    workers, map_input, map_task, map_output, file_vars >>

\* One call of Node::new_root_node up to its recursive calls: the spans are
\* taken, a slice of at most max_pts bodies becomes a leaf and the call
\* returns it; any other slice is split at split_index, and the calls on the
\* lower and on the upper part come next.
NewRootNodeCall ==
    /\ pc \in {"new", "time_step"}
    /\ calls # << >>
    /\ calls[Pending].op = "call"
    /\ \E i \in { Pending } : \E new \in { calls[Len(calls)] } :
       \E pts \in { calls[i].pts } : \E dist \in { xyz_distances(pts) } :
          IF IsLeafSlice(pts, new.max_pts)
          THEN \E leaf \in { LeafNode(pts, new.theta, new.time_step) } :
                  calls' = Replace(calls, i, i, << NodeFrame(leaf) >>)
          ELSE \E split_dimension \in { SplitDimension(dist) } :
               \E m \in find_median(split_dimension, pts) :
                  calls' = Replace(calls, i, i,
                                   << CallFrame(LowerSlice(m.pts, m.split_index)),
                                      CallFrame(UpperSlice(m.pts, m.split_index)),
                                      JoinFrame(split_dimension, m.split_value) >>)
    /\ UNCHANGED << input, arg_theta, arg_max_pts, arg_time_step, tree, steps,
                    map_vars, file_vars >>

\* The rest of a call of Node::new_root_node that has split its slice: both
\* recursive calls have returned and their nodes become the children of the
\* node this call returns.
NewRootNodeJoin ==
    /\ pc \in {"new", "time_step"}
    /\ calls # << >>
    /\ calls[Pending].op = "join"
    /\ \E i \in { Pending } : \E new \in { calls[Len(calls)] } :
       \E node \in { InteriorNode(calls[i].split_dimension, calls[i].split_value,
                                  calls[i - 2].node, calls[i - 1].node,
                                  new.theta, new.time_step) } :
          calls' = Replace(calls, i - 2, i, << NodeFrame(node) >>)
    /\ UNCHANGED << input, arg_theta, arg_max_pts, arg_time_step, tree, steps,
                    map_vars, file_vars >>

\* The GravTree that GravTree::new makes of the root returned to it.
ReturnedTree ==
    LET new == calls[Len(calls)]
    IN  [root |-> calls[1].node, number_of_entities |-> Len(new.pts),
         theta |-> new.theta, max_pts |-> new.max_pts, time_step |-> new.time_step]

\* GravTree::new returns once the call on the whole vector has returned.
NewReturn ==
    /\ pc = "new"
    /\ calls # << >>
    /\ calls[Pending].op = "new"
    /\ tree' = Some(ReturnedTree)
    /\ pc' = "idle"
    /\ calls' = << >>
    /\ UNCHANGED << input, arg_theta, arg_max_pts, arg_time_step, steps,
                    workers, map_input, map_task, map_output, file_vars >>

\* time_step returns the tree of the GravTree::new it ends in.
TimeStepReturn ==
    /\ pc = "time_step"
    /\ calls # << >>
    /\ calls[Pending].op = "new"
    /\ tree' = Some(ReturnedTree)
    /\ steps' = steps + 1
    /\ pc' = "idle"
    /\ calls' = << >>
    /\ UNCHANGED << input, arg_theta, arg_max_pts, arg_time_step,
                    workers, map_input, map_task, map_output, file_vars >>

NextBuild ==
    \/ NewBegin
    \/ TimeStepBegin
    \/ NewRootNodeCall
    \/ NewRootNodeJoin
    \/ NewReturn
    \/ TimeStepReturn

\* The thread inside GravTree::new or time_step runs on: a call that can be
\* made is made, and a return that can happen happens.
SpecBuild ==
    /\ InitBuild
    /\ [][NextBuild]_vars
    /\ WF_vars(NewRootNodeCall)
    /\ WF_vars(NewRootNodeJoin)
    /\ WF_vars(NewReturn)
    /\ WF_vars(TimeStepReturn)

\* C26: every call of Node::new_root_node is on a non-empty slice, a call on
\* an over-full slice makes its two recursive calls on non-empty slices
\* strictly smaller than its own (0 < split_index < len), and so every
\* GravTree::new and every time_step that is entered eventually returns, with
\* a tree that GravTree::new, or time_step, can return.
C26_BuildTermination ==
    /\ [](\A i \in 1..Len(calls) : calls[i].op = "call" => Len(calls[i].pts) >= 1)
    /\ [][(/\ calls # << >>
           /\ calls' # calls
           /\ calls[Pending].op = "call"
           /\ ~IsLeafSlice(calls[Pending].pts, calls[Len(calls)].max_pts)) =>
            LET i == Pending
                len == Len(calls[i].pts)
            IN  /\ calls'[i].op = "call" /\ calls'[i + 1].op = "call"
                /\ 0 < Len(calls'[i].pts) /\ Len(calls'[i].pts) < len
                /\ 0 < Len(calls'[i + 1].pts) /\ Len(calls'[i + 1].pts) < len
                /\ Len(calls'[i].pts) + Len(calls'[i + 1].pts) = len]_vars
    /\ [][(pc = "new" /\ pc' = "idle") =>
            tree'[1] \in GravTree_new(input, arg_theta, arg_max_pts, arg_time_step)]_vars
    /\ [][(pc = "time_step" /\ pc' = "idle") => tree'[1] \in time_step(tree[1])]_vars
    /\ (pc # "idle") ~> (pc = "idle")

\* A time_step that has returned the tree of three bodies it rebuilt, every
\* body in a leaf of its own.
C26_Witness ==
    /\ Built
    /\ pc = "idle"
    /\ calls = << >>
    /\ steps > 0
    /\ arg_max_pts = 1
    /\ Len(BodiesUnder(Root)) = 3


\* ---------------------------------------------------------------------------
\* Trees whose parameters differ from those of their bodies
\* ---------------------------------------------------------------------------

\* The longest vector of a tree built with parameters of its own.
MaxOwnBodies == 3

OwnBodyVectors == UNION { SeqsOfLen(Bodies, n) : n \in 1..MaxOwnBodies }

\* The theta and the time step handed to GravTree::new: those of the bodies,
\* or a narrow theta with a long time step.
TreeParameters == { [theta |-> F(3), time_step |-> Fifth],
                    [theta |-> Fifth, time_step |-> F(1)] }

\* As Init, with theta 3 in every body, and a theta and a time step for the
\* tree chosen apart from those of the bodies.
InitOwn ==
    /\ \E pts \in OwnBodyVectors : input = WithTheta(pts, F(3))
    /\ \E p \in TreeParameters : arg_theta = p.theta /\ arg_time_step = p.time_step
    /\ arg_max_pts \in MaxPtsChoices
    /\ tree = None
    /\ steps = 0
    /\ workers = 1
    /\ NoMap
    /\ NoFile
    /\ NoCalls

SpecOwn == InitOwn /\ [][Next]_vars

\* The node with theta and time_step stored in it and in every node under it.
RECURSIVE Retuned(_, _, _)
Retuned(node, theta, dt) ==
    [node EXCEPT !.theta = theta,
                 !.time_step = dt,
                 !.left = IF node.left = None THEN None
                          ELSE Some(Retuned(node.left[1], theta, dt)),
                 !.right = IF node.right = None THEN None
                           ELSE Some(Retuned(node.right[1], theta, dt))]

\* The tree with the same bodies and the same structure, and theta and
\* time_step as its parameters and those of its nodes.
RetunedTree(t, theta, dt) ==
    [t EXCEPT !.root = Retuned(t.root, theta, dt), !.theta = theta, !.time_step = dt]

====
